---- MODULE Spec2Model ----
(***************************************************************************)
(* A model of pyhis/usgs_tables.py: the pytables cache of USGS sites and   *)
(* values.  Text is a sequence of symbols, so that a key, a path such as   *)
(* location/srs and the separator "/" inside it can be told apart, and so  *)
(* that a fixed-width string column can cut a text short.                  *)
(***************************************************************************)
EXTENDS Integers, Sequences, FiniteSets, TLC

\* ------------------------------------------------------------------------
\* Nested dicts, schemas and rows
\* ------------------------------------------------------------------------

\* the separator of _flatten_nested_dict
Sep == "/"

\* a one-symbol text: a dict key or a column name without separator
Txt(s) == <<s>>

\* a dict is a function from keys to nodes; a node is a value or a dict
Leaf(v) == [isdict |-> FALSE, val |-> v]

Group(d) == [isdict |-> TRUE, val |-> d]

\* the dict holding the <<key, node>> pairs of items
Dict(items) == [k \in {it[1] : it \in items} |-> (CHOOSE it \in items : it[1] = k)[2]]

EmptyDict == Dict({})

\* a column of a table description: its name and the width of its type
\* (the n of StringCol(n); Wide for a column type that stores a value whole)
Wide == 99

Col(name, width) == [tuple |-> FALSE, name |-> Txt(name), width |-> width, sub |-> <<>>]

\* a nested description: the (name, [names]) tuple of _v_nestedNames
Nested(name, sub) == [tuple |-> TRUE, name |-> Txt(name), width |-> Wide, sub |-> sub]

\* tables orders the columns of a description by name
USGSSite ==
  << Col("agency", 20), Col("code", 20), Col("county", 30), Col("huc", 20),
     Nested("location", << Col("latitude", Wide), Col("longitude", Wide), Col("srs", 20) >>),
     Col("name", 250), Col("network", 20), Col("site_type", 20), Col("state_code", 2),
     Nested("timezone_info",
            << Nested("default_tz", << Col("abbreviation", 5), Col("offset", 7) >>),
               Nested("dst_tz", << Col("abbreviation", 5), Col("offset", 7) >>),
               Col("uses_dst", Wide) >>) >>

USGSVariable ==
  << Col("code", 5), Col("description", 250), Col("name", 250), Col("network", 20),
     Col("no_data_value", 20),
     Nested("statistic", << Col("code", 5), Col("name", 5) >>),
     Col("type", 20), Col("unit", 20), Col("vocabulary", 20) >>

\* the first definition of USGSValue, which the second one replaces
USGSValueFlat ==
  << Col("datetime", 26), Col("qualifiers", 20), Col("site_code", 20),
     Col("site_network", 10), Col("value", 20), Col("variable_code", 5),
     Col("variable_network", 5), Col("variable_statistic_code", 5),
     Col("variable_statistic_name", 20) >>

\* the second definition of USGSValue: the one in effect when init_h5 runs
USGSValue ==
  << Col("datetime", Wide), Col("qualifiers", 20),
     Nested("site", << Col("code", 5), Col("network", 5) >>),
     Col("value", 20),
     Nested("variable",
            << Col("code", 5), Col("network", 5),
               Nested("statistic", << Col("code", 5), Col("name", 5) >>) >>) >>

Min(a, b) == IF a <= b THEN a ELSE b

\* what a column of the given width keeps of a text
Stored(v, width) == SubSeq(v, 1, Min(Len(v), width))

\* the column paths of a description, each with its width
RECURSIVE ColPaths(_, _)
ColPaths(names, prefix) ==
  UNION { IF names[i].tuple
            THEN ColPaths(names[i].sub, prefix \o names[i].name \o <<Sep>>)
            ELSE { <<prefix \o names[i].name, names[i].width>> }
          : i \in 1..Len(names) }

ColNames(names) == { c[1] : c \in ColPaths(names, <<>>) }

ColWidth(names, path) == (CHOOSE c \in ColPaths(names, <<>>) : c[1] = path)[2]

\* the default of every column: the empty text
DefaultRow(names) == [c \in ColNames(names) |-> <<>>]

\* row[k] = v for every item of a flat dict; a row is keyed by column path
RowSet(row, names, flat) ==
  [c \in DOMAIN row |->
     IF c \in DOMAIN flat THEN Stored(flat[c], ColWidth(names, c)) ELSE row[c]]

\* row[:]: the values of a row in column order, a nested column as a tuple
RECURSIVE RowSlice(_, _, _)
RowSlice(row, names, prefix) ==
  [i \in 1..Len(names) |->
     IF names[i].tuple
       THEN RowSlice(row, names[i].sub, prefix \o names[i].name \o <<Sep>>)
       ELSE row[prefix \o names[i].name]]

\* the items return_dict collects, before a later one replaces an earlier one
RECURSIVE FlatItems(_, _)
FlatItems(d, prepend) ==
  UNION { IF d[k].isdict
            THEN FlatItems(d[k].val, prepend \o k \o <<Sep>>)
            ELSE { <<prepend \o k, d[k].val>> }
          : k \in DOMAIN d }

\* the recursion is given k + '/' alone, without what was prepended so far
RECURSIVE FlatItemsShallow(_, _)
FlatItemsShallow(d, prepend) ==
  UNION { IF d[k].isdict
            THEN FlatItemsShallow(d[k].val, k \o <<Sep>>)
            ELSE { <<prepend \o k, d[k].val>> }
          : k \in DOMAIN d }

FlattenShallow(d, prepend) ==
  LET items == FlatItemsShallow(d, prepend)
  IN  [p \in {it[1] : it \in items} |-> (CHOOSE it \in items : it[1] = p)[2]]

_flatten_nested_dict(d, prepend) ==
  LET items == FlatItems(d, prepend)
  IN  [p \in {it[1] : it \in items} |-> (CHOOSE it \in items : it[1] = p)[2]]

RECURSIVE _row_to_dict(_, _)
_row_to_dict(row, names) ==
  LET n == Min(Len(names), Len(row))
      last(k) == CHOOSE i \in 1..n :
                   /\ names[i].name = k
                   /\ \A j \in 1..n : names[j].name = k => j <= i
  IN  [k \in {names[i].name : i \in 1..n} |->
         IF names[last(k)].tuple
           THEN Group(_row_to_dict(row[last(k)], names[last(k)].sub))
           ELSE Leaf(row[last(k)])]

\* ------------------------------------------------------------------------
\* The store files and the calls in progress
\* ------------------------------------------------------------------------

\* bounds of the model
MaxRows == 2

MaxSites == 2

MaxBatch == 2

MaxVals == 2

MaxGroups == 2

MaxSitesIn == 2

\* the default hdf5 file path, and a path a caller passes explicitly
HDF5_FILE_PATH == "pyhis.h5"

OtherPath == "other.h5"

Paths == {HDF5_FILE_PATH, OtherPath}

Procs == {1, 2}

VARIABLES
  files,   \* the hdf5 file at each path
  proc,    \* the call each process is in: its arguments, locals and position
  fl       \* the record, flat dict, row and dict of a flatten/unflatten round trip

vars == <<files, proc, fl>>

NoFile == [exists |-> FALSE, tables |-> FALSE, vnames |-> "none", sites |-> <<>>, values |-> <<>>]

\* a file tables.openFile(mode='w') has just created or truncated
NewFile == [NoFile EXCEPT !.exists = TRUE]

\* a file holding the usgs group with empty tables, its values table of the
\* description named by vnames
EmptyStore(vnames) == [NewFile EXCEPT !.tables = TRUE, !.vnames = vnames]

ValueNames(f) == IF f.vnames = "flat" THEN USGSValueFlat ELSE USGSValue

\* Python's None, and a dict found
None == [found |-> FALSE, val |-> EmptyDict]

Some(d) == [found |-> TRUE, val |-> d]

\* pre is the files as they were when the call began, log the operations
\* the call has performed on its table and its handle so far, and nrows the
\* number of rows its table had when the call opened the file
Idle ==
  [ op |-> "idle", pc |-> "idle", err |-> "none",
    path |-> "none", rpath |-> "none", mode |-> "none",
    site_code |-> <<>>, site |-> None, sites |-> <<>>, site_data |-> <<>>,
    d |-> 0, i |-> 0, ai |-> 0, append_indices |-> <<>>, value_variable |-> EmptyDict,
    h5file |-> "none", rfile |-> "none", row_buffer |-> <<>>, return_dict |-> EmptyDict,
    pre |-> <<>>, log |-> <<>>, nrows |-> 0 ]

\* the call raises: it stops where it is, its file handles left as they are
Raise(c, e) == [c EXCEPT !.pc = "raised", !.err = e]

\* ------------------------------------------------------------------------
\* The inputs a call is given
\* ------------------------------------------------------------------------

SeqsUpTo(S, n) == UNION { [1..k -> S] : k \in 0..n }

\* a site record as usgs_core.get_sites returns it
SiteRecord(code, network, name) ==
  Dict({ <<Txt("agency"), Leaf(Txt("USGS"))>>,
         <<Txt("code"), Leaf(Txt(code))>>,
         <<Txt("county"), Leaf(Txt("44007"))>>,
         <<Txt("huc"), Leaf(Txt("01090004"))>>,
         <<Txt("location"), Group(Dict({ <<Txt("latitude"), Leaf(Txt("41.7"))>>,
                                         <<Txt("longitude"), Leaf(Txt("-71.4"))>>,
                                         <<Txt("srs"), Leaf(Txt("EPSG:4326"))>> }))>>,
         <<Txt("name"), Leaf(Txt(name))>>,
         <<Txt("network"), Leaf(Txt(network))>>,
         <<Txt("site_type"), Leaf(Txt("ST"))>>,
         <<Txt("state_code"), Leaf(<<"R", "I">>)>>,
         <<Txt("timezone_info"),
           Group(Dict({ <<Txt("default_tz"), Group(Dict({ <<Txt("abbreviation"), Leaf(Txt("EST"))>>,
                                                          <<Txt("offset"), Leaf(Txt("-05:00"))>> }))>>,
                        <<Txt("dst_tz"), Group(Dict({ <<Txt("abbreviation"), Leaf(Txt("EDT"))>>,
                                                      <<Txt("offset"), Leaf(Txt("-04:00"))>> }))>>,
                        <<Txt("uses_dst"), Leaf(Txt("True"))>> }))>> })

SiteCodes == {"01116300", "01117000"}

SiteRecords ==
  { SiteRecord("01116300", "NWIS", "PAWTUXET RIVER"),
    SiteRecord("01116300", "NWIS", "PAWTUXET R AT CRANSTON"),
    SiteRecord("01117000", "USGS", "HUNT RIVER") }

\* the variable of a group of values, with or without a statistic
VariableRecords ==
  { Dict({ <<Txt("code"), Leaf(Txt("00060"))>>,
           <<Txt("network"), Leaf(Txt("NWIS"))>>,
           <<Txt("statistic"), Group(Dict({ <<Txt("code"), Leaf(Txt("00003"))>>,
                                            <<Txt("name"), Leaf(Txt("Mean"))>> }))>> }),
    Dict({ <<Txt("code"), Leaf(Txt("00065"))>>,
           <<Txt("network"), Leaf(Txt("USGS"))>> }) }

Datetimes == {"2020-01-01T00:00:00", "2020-01-02T00:00:00"}

MoreDatetimes == Datetimes \cup {"2020-01-03T00:00:00"}

ValueTexts == {"12.3", "12.5"}

\* a value as usgs_core.get_site_data returns it: a flat dict
ValueRecord(datetime, value) ==
  Dict({ <<Txt("datetime"), Txt(datetime)>>,
         <<Txt("qualifiers"), Txt("A")>>,
         <<Txt("value"), Txt(value)>> })

ValueRecords(datetimes) == { ValueRecord(t, v) : t \in datetimes, v \in ValueTexts }

\* the groups of one to max_vals values of a variable
DataGroups(variables, datetimes, max_vals) ==
  [variable : variables, values : SeqsUpTo(ValueRecords(datetimes), max_vals) \ {<<>>}]

RECURSIVE BatchSize(_)
BatchSize(site_data) ==
  IF site_data = <<>> THEN 0
  ELSE Len(Head(site_data).values) + BatchSize(Tail(site_data))

\* what usgs_core.get_site_data may return, in the order itervalues gives
SiteDataOver(groups, max_groups, max_batch) ==
  { b \in SeqsUpTo(groups, max_groups) : BatchSize(b) <= max_batch }

SiteData == SiteDataOver(DataGroups(VariableRecords, Datetimes, MaxVals), MaxGroups, MaxBatch)

\* what usgs_core.get_sites may return, in the order itervalues gives
SiteLists == SeqsUpTo(SiteRecords, MaxSitesIn) \ {<<>>}

\* ------------------------------------------------------------------------
\* get_sites and get_site
\* ------------------------------------------------------------------------

\* site_table.description._v_nestedNames
SiteNames == USGSSite

\* of the rows of one code the first one stays
SitesDictFirst(site_table) ==
  LET firstrow(code) == CHOOSE i \in 1..Len(site_table) :
                          /\ site_table[i][Txt("code")] = code
                          /\ \A j \in 1..Len(site_table) :
                               site_table[j][Txt("code")] = code => i <= j
  IN  [code \in {site_table[i][Txt("code")] : i \in 1..Len(site_table)} |->
         _row_to_dict(RowSlice(site_table[firstrow(code)], SiteNames, <<>>), SiteNames)]

\* dict([(row['code'], _row_to_dict(row, names)) for row in site_table.iterrows()]):
\* of the rows of one code the last one stays
SitesDict(site_table) ==
  LET lastrow(code) == CHOOSE i \in 1..Len(site_table) :
                         /\ site_table[i][Txt("code")] = code
                         /\ \A j \in 1..Len(site_table) :
                              site_table[j][Txt("code")] = code => j <= i
  IN  [code \in {site_table[i][Txt("code")] : i \in 1..Len(site_table)} |->
         _row_to_dict(RowSlice(site_table[lastrow(code)], SiteNames, <<>>), SiteNames)]

\* return_dict.get(site_code)
DictGet(return_dict, site_code) ==
  IF site_code \in DOMAIN return_dict THEN Some(return_dict[site_code]) ELSE None

\* get_sites(path) is called
CallGetSites(p, path) ==
  /\ proc[p].pc = "idle"
  /\ proc' = [proc EXCEPT ![p] = [Idle EXCEPT !.op = "get_sites", !.pc = "get_sites_open",
                                               !.path = path, !.rpath = path, !.pre = files]]
  /\ UNCHANGED <<files, fl>>

\* h5file = tables.openFile(path, mode='r')
GetSitesOpen(p) ==
  LET c == proc[p] IN
  /\ c.pc = "get_sites_open"
  /\ proc' = [proc EXCEPT ![p] =
       IF files[c.rpath].exists
         THEN [c EXCEPT !.rfile = "open", !.pc = "get_sites_read"]
         ELSE Raise(c, "IOError")]
  /\ UNCHANGED <<files, fl>>

\* the rest of get_sites: the table is read into return_dict and the file
\* closed; in update_site_data, get_site then takes the site out of the dict
GetSitesRead(p, faults) ==
  LET c == proc[p]
      f == files[c.rpath]
  IN
  /\ c.pc = "get_sites_read"
  /\ \E fault \in faults :
       proc' = [proc EXCEPT ![p] =
         IF ~f.tables THEN Raise(c, "NoSuchNodeError")
         ELSE IF fault THEN Raise(c, "HDF5ExtError")
         ELSE IF c.op = "get_sites"
           THEN [c EXCEPT !.rfile = "closed", !.return_dict = SitesDict(f.sites),
                          !.pc = "done"]
           ELSE [c EXCEPT !.rfile = "closed",
                          !.site = DictGet(SitesDict(f.sites), c.site_code),
                          !.pc = "data_open"]]
  /\ UNCHANGED <<files, fl>>

\* ------------------------------------------------------------------------
\* init_h5
\* ------------------------------------------------------------------------

\* the columns init_h5 indexes in the sites and in the values table
SiteIndexes == {"code", "network"}

ValueIndexes == {"datetime", "site_code", "site_network", "variable_code", "variable_network"}

\* table.cols.<name>: the top-level names of a description
TopNames(names) == { names[i].name : i \in 1..Len(names) }

\* init_h5(path, mode) is called
CallInitH5(p, path, mode) ==
  /\ proc[p].pc = "idle"
  /\ proc' = [proc EXCEPT ![p] = [Idle EXCEPT !.op = "init_h5", !.pc = "init_open",
                                               !.path = path, !.mode = mode, !.pre = files]]
  /\ UNCHANGED <<files, fl>>

\* h5file = tables.openFile(path, mode=mode, title="pyHIS data"): mode 'w'
\* creates the file anew, mode 'a' opens it and creates it when it is missing
InitOpen(p) ==
  LET c == proc[p] IN
  /\ c.pc = "init_open"
  /\ files' = [files EXCEPT ![c.path] =
       IF c.mode = "w" \/ ~files[c.path].exists THEN NewFile ELSE @]
  /\ proc' = [proc EXCEPT ![p] = [c EXCEPT !.h5file = "open", !.pc = "init_create"]]
  /\ UNCHANGED fl

\* createGroup and the three createTable calls, with the indexes of sites;
\* the values table gets the description USGSValue names at that time
InitCreate(p) ==
  LET c == proc[p] IN
  /\ c.pc = "init_create"
  /\ IF files[c.path].tables
       THEN /\ proc' = [proc EXCEPT ![p] = Raise(c, "NodeError")]
            /\ UNCHANGED files
       ELSE /\ files' = [files EXCEPT ![c.path] = EmptyStore("nested")]
            /\ proc' = [proc EXCEPT ![p] =
                 IF \A n \in SiteIndexes : Txt(n) \in TopNames(USGSSite)
                   THEN [c EXCEPT !.pc = "init_index"]
                   ELSE Raise(c, "AttributeError")]
  /\ UNCHANGED fl

\* the createIndex calls on the values table, then h5file.close()
InitIndex(p) ==
  LET c == proc[p] IN
  /\ c.pc = "init_index"
  /\ proc' = [proc EXCEPT ![p] =
       IF \A n \in ValueIndexes : Txt(n) \in TopNames(ValueNames(files[c.path]))
         THEN [c EXCEPT !.h5file = "closed", !.pc = "done"]
         ELSE Raise(c, "AttributeError")]
  /\ UNCHANGED <<files, fl>>

\* ------------------------------------------------------------------------
\* update_site_list
\* ------------------------------------------------------------------------

\* the buffered rows are put before the rows of the table
FlushedFront(table, row_buffer) == row_buffer \o table

\* the buffered rows replace the rows of the table that have their code
FlushedOverSameCode(table, row_buffer) ==
  SelectSeq(table, LAMBDA row : \A j \in 1..Len(row_buffer) :
                                  row[Txt("code")] # row_buffer[j][Txt("code")])
  \o row_buffer

\* a flush that looks at the table again: a buffered row is left out when
\* the table has a row of its key by then
FlushedUnlessThere(table, row_buffer) ==
  LET key(row) == IF Txt("site_code") \in DOMAIN row
                    THEN <<row[Txt("site_code")], row[Txt("variable_code")], row[Txt("datetime")]>>
                    ELSE <<row[Txt("code")]>>
  IN  table \o SelectSeq(row_buffer,
                         LAMBDA row : \A m \in 1..Len(table) : key(table[m]) # key(row))

\* table.flush(): the rows appended since the last flush follow the rows of
\* the table
Flushed(table, row_buffer) == table \o row_buffer

\* table.flush() through a handle that was opened when the table had nrows
\* rows, after another process has added rows (no lock, lines 132-134): the
\* rows are written from the place the handle takes for the end of the table
FlushedStale(table, row_buffer, nrows) ==
  SubSeq(table, 1, Min(nrows, Len(table)))
    \o row_buffer
    \o SubSeq(table, nrows + Len(row_buffer) + 1, Len(table))

\* row[k] = v of a key that is no column raises KeyError
Settable(names, flat) == DOMAIN flat \subseteq ColNames(names)

\* update_site_list(state_code, path) is called; sites is what
\* usgs_core.get_sites(state_code) returns
CallUpdateSiteList(p, path, sites, max_sites) ==
  /\ proc[p].pc = "idle"
  /\ Len(files[path].sites) + Len(sites) <= max_sites
  /\ proc' = [proc EXCEPT ![p] = [Idle EXCEPT !.op = "update_site_list", !.pc = "list_open",
                                               !.path = path, !.sites = sites, !.pre = files]]
  /\ UNCHANGED <<files, fl>>

\* h5file = tables.openFile(path, mode="r+"); site_table = h5file.root.usgs.sites
ListOpen(p) ==
  LET c == proc[p] IN
  /\ c.pc = "list_open"
  /\ proc' = [proc EXCEPT ![p] =
       IF ~files[c.path].exists THEN Raise(c, "IOError")
       ELSE IF ~files[c.path].tables
         THEN Raise([c EXCEPT !.h5file = "open"], "NoSuchNodeError")
         ELSE [c EXCEPT !.h5file = "open", !.i = 1, !.pc = "list_append",
                        !.nrows = Len(files[c.path].sites)]]
  /\ UNCHANGED <<files, fl>>

\* one round of the loop over sites: flatten, set the row, site_row.append()
ListAppend(p, faults) ==
  LET c == proc[p] IN
  /\ c.pc = "list_append"
  /\ \E fault \in faults :
       proc' = [proc EXCEPT ![p] =
         IF c.i > Len(c.sites) THEN [c EXCEPT !.pc = "list_flush"]
         ELSE LET flattened == _flatten_nested_dict(c.sites[c.i], <<>>) IN
              IF ~Settable(SiteNames, flattened) THEN Raise(c, "KeyError")
              ELSE IF fault THEN Raise(c, "HDF5ExtError")
              ELSE [c EXCEPT !.row_buffer = Append(@, RowSet(DefaultRow(SiteNames), SiteNames, flattened)),
                             !.i = @ + 1, !.log = Append(@, "append")]]
  /\ UNCHANGED <<files, fl>>

\* site_table.flush(): with no other writer since the file was opened the
\* rows follow the rows of the table; with one, they may also be written over
\* what that writer added
ListFlush(p, faults) ==
  LET c == proc[p] IN
  /\ c.pc = "list_flush"
  /\ \E fault \in faults, stale \in BOOLEAN :
       IF fault
         THEN /\ proc' = [proc EXCEPT ![p] = Raise(c, "HDF5ExtError")]
              /\ UNCHANGED files
         ELSE /\ files' = [files EXCEPT ![c.path].sites =
                     IF stale THEN FlushedStale(@, c.row_buffer, c.nrows)
                              ELSE Flushed(@, c.row_buffer)]
              /\ proc' = [proc EXCEPT ![p] = [c EXCEPT !.row_buffer = <<>>, !.pc = "list_close",
                                                    !.log = Append(@, "flush")]]
  /\ UNCHANGED fl

\* h5file.close()
ListClose(p) ==
  LET c == proc[p] IN
  /\ c.pc = "list_close"
  /\ proc' = [proc EXCEPT ![p] = [c EXCEPT !.h5file = "closed", !.pc = "done",
                                           !.log = Append(@, "close")]]
  /\ UNCHANGED <<files, fl>>

\* ------------------------------------------------------------------------
\* update_site_data
\* ------------------------------------------------------------------------

\* value_variable: the site and variable attributes every row of a group gets
ValueVariable(site, variable) ==
  LET base == Dict({ <<Txt("site_code"), site[Txt("code")].val>>,
                     <<Txt("site_network"), site[Txt("network")].val>>,
                     <<Txt("variable_code"), variable[Txt("code")].val>>,
                     <<Txt("variable_network"), variable[Txt("network")].val>> })
      stat == Dict({ <<Txt("variable_statistic_code"),
                       variable[Txt("statistic")].val[Txt("code")].val>>,
                     <<Txt("variable_statistic_name"),
                       variable[Txt("statistic")].val[Txt("name")].val>> })
  IN  IF Txt("statistic") \in DOMAIN variable THEN stat @@ base ELSE base

\* where_clause: the columns it names, each with the text it must equal
WhereClause(site, variable, update_value) ==
  Dict({ <<Txt("site_code"), site[Txt("code")].val>>,
         <<Txt("variable_code"), variable[Txt("code")].val>>,
         <<Txt("datetime"), update_value[Txt("datetime")]>> })

\* the scan finds no row at all
WhereNothing(value_table, where_clause) == {}

\* the where clause without its datetime term
WhereAnyTime(value_table, where_clause) ==
  { m \in 1..Len(value_table) :
      \A col \in DOMAIN where_clause \ {Txt("datetime")} :
        value_table[m][col] = where_clause[col] }

\* the positions value_table.where(where_clause) yields, in table order
Where(value_table, where_clause) ==
  { m \in 1..Len(value_table) :
      \A col \in DOMAIN where_clause : value_table[m][col] = where_clause[col] }

\* the last of a set of positions
LastOf(S) == CHOOSE m \in S : \A n \in S : n <= m

\* the first of the positions the scan yields: the loop body runs for it and
\* breaks
First(S) == CHOOSE m \in S : \A n \in S : m <= n

\* value.update(value_variable): the value with the attributes laid over it
Updated(value, value_variable) == value_variable @@ value

\* _update_row_with_value, with the _update_row_with_dict it ends in
_update_row_with_value(row, names, value, value_variable) ==
  RowSet(row, names, Updated(value, value_variable))

\* the number of values of site_data whose key no row of value_table has: the
\* most rows a call can append (it keeps a table within MaxRows)
RECURSIVE NewKeys(_, _, _)
NewKeys(site_code, site_data, value_table) ==
  IF site_data = <<>> THEN 0
  ELSE LET g == Head(site_data)
           fresh == { i \in 1..Len(g.values) :
                        \A m \in 1..Len(value_table) :
                          \/ Txt("site_code") \notin DOMAIN value_table[m]
                          \/ value_table[m][Txt("site_code")] # Txt(site_code)
                          \/ value_table[m][Txt("variable_code")] # g.variable[Txt("code")].val
                          \/ value_table[m][Txt("datetime")] # g.values[i][Txt("datetime")] }
       IN  Cardinality(fresh) + NewKeys(site_code, Tail(site_data), value_table)

\* update_site_data(site_code, date_range, path) is called; site_data is what
\* usgs_core.get_site_data returns.  It starts with get_site(site_code),
\* which reads the sites of the default file whatever path is
CallUpdateSiteData(p, site_code, path, site_data, max_rows) ==
  /\ proc[p].pc = "idle"
  /\ Len(files[path].values) + NewKeys(site_code, site_data, files[path].values) <= max_rows
  /\ proc' = [proc EXCEPT ![p] =
       [Idle EXCEPT !.op = "update_site_data", !.pc = "get_sites_open",
                    !.path = path, !.rpath = HDF5_FILE_PATH, !.site_code = Txt(site_code),
                    !.site_data = site_data, !.pre = files]]
  /\ UNCHANGED <<files, fl>>

\* h5file = tables.openFile(path, mode="r+"); value_table = h5file.root.usgs.values
DataOpen(p) ==
  LET c == proc[p] IN
  /\ c.pc = "data_open"
  /\ proc' = [proc EXCEPT ![p] =
       IF ~files[c.path].exists THEN Raise(c, "IOError")
       ELSE IF ~files[c.path].tables
         THEN Raise([c EXCEPT !.h5file = "open"], "NoSuchNodeError")
         ELSE [c EXCEPT !.h5file = "open", !.d = 1, !.pc = "data_group",
                        !.nrows = Len(files[c.path].values)]]
  /\ UNCHANGED <<files, fl>>

\* the head of the loop over site_data: value_variable is built for the
\* group, which reads site['code'] of a site that may be None
DataGroup(p) ==
  LET c == proc[p] IN
  /\ c.pc = "data_group"
  /\ proc' = [proc EXCEPT ![p] =
       IF c.d > Len(c.site_data) THEN [c EXCEPT !.pc = "data_flush"]
       ELSE IF ~c.site.found THEN Raise(c, "TypeError")
       ELSE [c EXCEPT !.value_variable = ValueVariable(c.site.val, c.site_data[c.d].variable),
                      !.i = 1, !.append_indices = <<>>, !.pc = "data_scan"]]
  /\ UNCHANGED <<files, fl>>

\* one round of the loop over update_values: the first row the where clause
\* yields is updated, and with no such row the index is kept for the appends
DataScan(p, faults) ==
  LET c == proc[p]
      f == files[c.path]
      names == ValueNames(f)
      g == c.site_data[c.d]
  IN
  /\ c.pc = "data_scan"
  /\ \E fault \in {"none"} \cup (IF TRUE \in faults THEN {"where", "update"} ELSE {}) :
       IF c.i > Len(g.values)
         THEN /\ proc' = [proc EXCEPT ![p] = [c EXCEPT !.ai = 1, !.pc = "data_append"]]
              /\ UNCHANGED files
         ELSE
           LET update_value == g.values[c.i]
               where_clause == WhereClause(c.site.val, g.variable, update_value)
               found == Where(f.values, where_clause)
           IN
           IF ~(DOMAIN where_clause \subseteq ColNames(names))
             THEN /\ proc' = [proc EXCEPT ![p] = Raise(c, "NameError")]
                  /\ UNCHANGED files
           ELSE IF fault = "where"
             THEN /\ proc' = [proc EXCEPT ![p] = Raise(c, "HDF5ExtError")]
                  /\ UNCHANGED files
           ELSE IF found = {}
             THEN /\ proc' = [proc EXCEPT ![p] =
                       [c EXCEPT !.append_indices = Append(@, c.i), !.i = @ + 1,
                                 !.log = Append(@, "where")]]
                  /\ UNCHANGED files
           ELSE IF ~Settable(names, Updated(update_value, c.value_variable))
             THEN /\ proc' = [proc EXCEPT ![p] = Raise(c, "KeyError")]
                  /\ UNCHANGED files
           ELSE IF fault = "update"
             THEN /\ proc' = [proc EXCEPT ![p] = Raise(c, "HDF5ExtError")]
                  /\ UNCHANGED files
           ELSE /\ files' = [files EXCEPT ![c.path].values[First(found)] =
                       _update_row_with_value(@, names, update_value, c.value_variable)]
                /\ proc' = [proc EXCEPT ![p] =
                     [c EXCEPT !.i = @ + 1, !.log = @ \o <<"where", "update">>]]
  /\ UNCHANGED fl

\* a round of the append loop that flushes the table after its append
DataAppendFlushing(p, faults) ==
  LET c == proc[p]
      names == ValueNames(files[c.path])
      g == c.site_data[c.d]
  IN
  /\ c.pc = "data_append"
  /\ \E fault \in faults :
       IF c.ai > Len(c.append_indices)
         THEN /\ proc' = [proc EXCEPT ![p] = [c EXCEPT !.d = @ + 1, !.pc = "data_group"]]
              /\ UNCHANGED files
       ELSE IF fault \/ ~Settable(names, Updated(g.values[c.append_indices[c.ai]], c.value_variable))
         THEN /\ proc' = [proc EXCEPT ![p] = Raise(c, "HDF5ExtError")]
              /\ UNCHANGED files
       ELSE /\ files' = [files EXCEPT ![c.path].values =
                   Append(@, _update_row_with_value(DefaultRow(names), names,
                                                    g.values[c.append_indices[c.ai]],
                                                    c.value_variable))]
            /\ proc' = [proc EXCEPT ![p] =
                 [c EXCEPT !.ai = @ + 1, !.log = @ \o <<"append", "flush">>]]
  /\ UNCHANGED fl

\* one round of the loop over append_indices: value_row is set and appended;
\* the appends of a group come before the scans of the next group
DataAppend(p, faults) ==
  LET c == proc[p]
      names == ValueNames(files[c.path])
      g == c.site_data[c.d]
  IN
  /\ c.pc = "data_append"
  /\ \E fault \in faults :
       proc' = [proc EXCEPT ![p] =
         IF c.ai > Len(c.append_indices) THEN [c EXCEPT !.d = @ + 1, !.pc = "data_group"]
         ELSE LET append_value == g.values[c.append_indices[c.ai]] IN
              IF ~Settable(names, Updated(append_value, c.value_variable))
                THEN Raise(c, "KeyError")
              ELSE IF fault THEN Raise(c, "HDF5ExtError")
              ELSE [c EXCEPT !.row_buffer =
                               Append(@, _update_row_with_value(DefaultRow(names), names,
                                                                append_value, c.value_variable)),
                             !.ai = @ + 1, !.log = Append(@, "append")]]
  /\ UNCHANGED <<files, fl>>

\* value_table.flush()
DataFlush(p, faults) ==
  LET c == proc[p] IN
  /\ c.pc = "data_flush"
  /\ \E fault \in faults, stale \in BOOLEAN :
       IF fault
         THEN /\ proc' = [proc EXCEPT ![p] = Raise(c, "HDF5ExtError")]
              /\ UNCHANGED files
         ELSE /\ files' = [files EXCEPT ![c.path].values =
                     IF stale THEN FlushedStale(@, c.row_buffer, c.nrows)
                              ELSE Flushed(@, c.row_buffer)]
              /\ proc' = [proc EXCEPT ![p] = [c EXCEPT !.row_buffer = <<>>, !.pc = "data_close",
                                                    !.log = Append(@, "flush")]]
  /\ UNCHANGED fl

\* h5file.close()
DataClose(p) ==
  LET c == proc[p] IN
  /\ c.pc = "data_close"
  /\ proc' = [proc EXCEPT ![p] = [c EXCEPT !.h5file = "closed", !.pc = "done",
                                           !.log = Append(@, "close")]]
  /\ UNCHANGED <<files, fl>>

\* a file a call left open in mode r+ (no close on its way out) is closed by
\* PyTables when the interpreter exits, and closing a table flushes it: the
\* rows appended and not yet flushed are written then
ClosedLater(fs, c) ==
  IF c.op = "update_site_list"
    THEN [fs EXCEPT ![c.path].sites = Flushed(@, c.row_buffer)]
    ELSE [fs EXCEPT ![c.path].values = Flushed(@, c.row_buffer)]

\* the call has returned or raised, and the process is free for the next one;
\* a file it left open is either closed later, or never (the process killed)

Return(p) ==
  LET c == proc[p] IN
  /\ c.pc \in {"done", "raised"}
  /\ \E written \in BOOLEAN :
       /\ written => (c.h5file = "open" /\ c.row_buffer # <<>>)
       /\ files' = IF written THEN ClosedLater(files, c) ELSE files
  /\ proc' = [proc EXCEPT ![p] = Idle]
  /\ UNCHANGED fl

\* ------------------------------------------------------------------------
\* One process calling the module, one call after the other
\* ------------------------------------------------------------------------

NoRoundTrip == [pc |-> "none"]

\* the default file is missing, or is a store whose values table has the
\* columns update_site_data names (the first USGSValue)
Init ==
  /\ \E f \in {NoFile, EmptyStore("flat")} :
       files = [path \in Paths |-> IF path = HDF5_FILE_PATH THEN f ELSE NoFile]
  /\ proc = [p \in Procs |-> Idle]
  /\ fl = NoRoundTrip

\* the steps of get_sites, init_h5 and update_site_list
StepSites(p, faults) ==
  \/ GetSitesOpen(p) \/ GetSitesRead(p, faults)
  \/ InitOpen(p) \/ InitCreate(p) \/ InitIndex(p)
  \/ ListOpen(p) \/ ListAppend(p, faults) \/ ListFlush(p, faults) \/ ListClose(p)
  \/ Return(p)

\* the steps of update_site_data after its get_site
StepData(p, faults) ==
  \/ DataOpen(p) \/ DataGroup(p) \/ DataScan(p, faults) \/ DataAppend(p, faults)
  \/ DataFlush(p, faults) \/ DataClose(p)

CallSites(p, paths, site_lists, max_sites) ==
  \/ \E path \in paths : CallGetSites(p, path)
  \/ \E path \in paths, mode \in {"w", "a"} : CallInitH5(p, path, mode)
  \/ \E path \in paths, sites \in site_lists : CallUpdateSiteList(p, path, sites, max_sites)

CallData(p, paths, site_codes, batches, max_rows) ==
  \E path \in paths, site_code \in site_codes, site_data \in batches :
    CallUpdateSiteData(p, site_code, path, site_data, max_rows)

\* the site lists of Spec: one site at a time, of two sites
OneSiteLists ==
  { <<SiteRecord("01116300", "NWIS", "PAWTUXET RIVER")>>,
    <<SiteRecord("01117000", "USGS", "HUNT RIVER")>> }

Next ==
  \/ CallSites(1, {HDF5_FILE_PATH}, OneSiteLists, MaxSites)
  \/ CallData(1, {HDF5_FILE_PATH}, SiteCodes, SiteData, MaxRows)
  \/ StepSites(1, BOOLEAN)
  \/ StepData(1, BOOLEAN)

Spec == Init /\ [][Next]_vars

\* ------------------------------------------------------------------------
\* The sites table alone: lists of one or two sites, a site more than once
\* ------------------------------------------------------------------------

SitesRows == 3

NextSites ==
  \/ CallSites(1, {HDF5_FILE_PATH}, SiteLists, SitesRows)
  \/ StepSites(1, BOOLEAN)

SpecSites == Init /\ [][NextSites]_vars

\* ------------------------------------------------------------------------
\* The values of one site and one variable: batches of up to three values
\* at three datetimes, no store operation failing
\* ------------------------------------------------------------------------

OrderRows == 3

OrderBatch == 3

OrderData ==
  SiteDataOver(DataGroups({ v \in VariableRecords : Txt("statistic") \in DOMAIN v },
                          MoreDatetimes, OrderBatch), 1, OrderBatch)

NextOrder ==
  \/ CallSites(1, {HDF5_FILE_PATH}, { <<SiteRecord("01116300", "NWIS", "PAWTUXET RIVER")>> }, 1)
  \/ CallData(1, {HDF5_FILE_PATH}, {"01116300"}, OrderData, OrderRows)
  \/ StepSites(1, {FALSE})
  \/ StepData(1, {FALSE})

SpecOrder == Init /\ [][NextOrder]_vars

\* ------------------------------------------------------------------------
\* A record flattened, stored in a row and read back
\* ------------------------------------------------------------------------

\* the names whose values the records of the round trip vary
VariedNames == {"code", "name", "srs", "abbreviation"}

\* the texts a record may hold in a column: for the narrowest columns also
\* one the column is too narrow for
ColumnTexts(col) ==
  IF col.width <= 2 THEN { <<"R", "I">>, <<"R", "I", "X">> }
  ELSE IF col.name \in { Txt(n) : n \in VariedNames } THEN { Txt("a"), Txt("b") }
  ELSE { Txt("a") }

\* the records with exactly the keys of a description
RECURSIVE RecordsOf(_)
RecordsOf(names) ==
  IF names = <<>> THEN { EmptyDict }
  ELSE LET col == Head(names)
           nodes == IF col.tuple THEN { Group(d) : d \in RecordsOf(col.sub) }
                    ELSE { Leaf(v) : v \in ColumnTexts(col) }
       IN  { (col.name :> n) @@ rest : n \in nodes, rest \in RecordsOf(Tail(names)) }

\* a record and the same record with one of its keys left out
WithGaps(R) == {R} \cup { [k \in DOMAIN R \ {gap} |-> R[k]] : gap \in DOMAIN R }

\* a record has exactly the keys of the description, group for nested
\* description, and every text fits its column
RECURSIVE Conforms(_, _)
Conforms(R, names) ==
  /\ DOMAIN R = TopNames(names)
  /\ \A i \in 1..Len(names) :
       LET col == names[i] IN
       IF col.tuple
         THEN R[col.name].isdict /\ Conforms(R[col.name].val, col.sub)
         ELSE ~R[col.name].isdict /\ Len(R[col.name].val) <= col.width

Descriptions == {USGSSite, USGSVariable, USGSValue}

InitFlat ==
  /\ files = [path \in Paths |-> NoFile]
  /\ proc = [p \in Procs |-> Idle]
  /\ \E names \in Descriptions :
       \E R \in UNION { WithGaps(full) : full \in RecordsOf(names) } :
         fl = [pc |-> "record", names |-> names, R |-> R]

\* flattened = _flatten_nested_dict(site)
Flatten ==
  /\ fl.pc = "record"
  /\ fl' = [pc |-> "flat", names |-> fl.names, R |-> fl.R,
            flattened |-> _flatten_nested_dict(fl.R, <<>>)]
  /\ UNCHANGED <<files, proc>>

\* for k, v in flattened.iteritems(): row[k] = v
SetRow ==
  /\ fl.pc = "flat"
  /\ fl' = IF Settable(fl.names, fl.flattened)
             THEN [pc |-> "row", names |-> fl.names, R |-> fl.R,
                   row |-> RowSet(DefaultRow(fl.names), fl.names, fl.flattened)]
             ELSE [pc |-> "raised", names |-> fl.names, R |-> fl.R]
  /\ UNCHANGED <<files, proc>>

\* _row_to_dict(row, names)
Unflatten ==
  /\ fl.pc = "row"
  /\ fl' = [pc |-> "dict", names |-> fl.names, R |-> fl.R,
            return_dict |-> _row_to_dict(RowSlice(fl.row, fl.names, <<>>), fl.names)]
  /\ UNCHANGED <<files, proc>>

NextFlat == Flatten \/ SetRow \/ Unflatten

SpecFlat == InitFlat /\ [][NextFlat]_vars

\* ------------------------------------------------------------------------
\* Two store files: the default one and one the caller names
\* ------------------------------------------------------------------------

PathRows == 1

PathSites == 1

\* batches of at most one value
PathData ==
  SiteDataOver(DataGroups(VariableRecords, {"2020-01-01T00:00:00"}, 1), 1, 1)

\* each of the two files is missing or is a store
InitPaths ==
  /\ files \in [Paths -> {NoFile, EmptyStore("flat")}]
  /\ proc = [p \in Procs |-> Idle]
  /\ fl = NoRoundTrip

NextPaths ==
  \/ CallSites(1, Paths, OneSiteLists, PathSites)
  \/ CallData(1, Paths, SiteCodes, PathData, PathRows)
  \/ StepSites(1, {FALSE})
  \/ StepData(1, {FALSE})

SpecPaths == InitPaths /\ [][NextPaths]_vars

\* ------------------------------------------------------------------------
\* Batches that mix variables: a variable with its statistic, the same
\* variable code without one, and another variable
\* ------------------------------------------------------------------------

AttrRows == 2

AttrGroups == 2

AttrVariables ==
  VariableRecords
    \cup { Dict({ <<Txt("code"), Leaf(Txt("00060"))>>,
                  <<Txt("network"), Leaf(Txt("NWIS"))>> }) }

\* one or two groups of one value each, all at one datetime
AttrData ==
  SiteDataOver(DataGroups(AttrVariables, {"2020-01-01T00:00:00"}, 1), AttrGroups, AttrGroups)

NextAttrs ==
  \/ CallSites(1, {HDF5_FILE_PATH}, { <<SiteRecord("01116300", "NWIS", "PAWTUXET RIVER")>> }, 1)
  \/ CallData(1, {HDF5_FILE_PATH}, {"01116300"}, AttrData, AttrRows)
  \/ StepSites(1, {FALSE})
  \/ StepData(1, {FALSE})

SpecAttrs == Init /\ [][NextAttrs]_vars

\* ------------------------------------------------------------------------
\* Two processes that write to the same store, their steps interleaved
\* ------------------------------------------------------------------------

TwoRows == 2

\* batches of one value of one variable at one datetime
TwoData ==
  { b \in SiteDataOver(DataGroups({ v \in VariableRecords : Txt("statistic") \in DOMAIN v },
                                  {"2020-01-01T00:00:00"}, 1), 1, 1) : b # <<>> }

\* the steps of a call that reads the sites, and the end of a call
StepRead(p, faults) == GetSitesOpen(p) \/ GetSitesRead(p, faults) \/ Return(p)

\* the steps of update_site_list after its call
StepList(p, faults) ==
  ListOpen(p) \/ ListAppend(p, faults) \/ ListFlush(p, faults) \/ ListClose(p)

NextTwo ==
  \/ CallUpdateSiteList(1, HDF5_FILE_PATH, <<SiteRecord("01116300", "NWIS", "PAWTUXET RIVER")>>, 1)
  \/ StepList(1, {FALSE})
  \/ \E p \in Procs :
       \/ CallData(p, {HDF5_FILE_PATH}, {"01116300"}, TwoData, TwoRows)
       \/ StepRead(p, {FALSE})
       \/ StepData(p, {FALSE})

SpecTwo == Init /\ [][NextTwo]_vars

\* ------------------------------------------------------------------------
\* Records whose keys may hold the separator, flattened
\* ------------------------------------------------------------------------

\* the keys of these records: two plain ones and one that holds a '/'
SlashKeys == { Txt("a"), Txt("b"), <<"a", Sep, "b">> }

\* the dicts that give some of the keys a node each
DictsOver(keys, nodes) == UNION { [K -> nodes] : K \in SUBSET keys }

\* records two levels deep
SlashRecords ==
  DictsOver(SlashKeys,
            { Leaf(Txt("x")), Leaf(Txt("y")) }
              \cup { Group(d) : d \in DictsOver(SlashKeys, { Leaf(Txt("x")) }) })

\* what _flatten_nested_dict may return: when two items have the same flat
\* key, the one that iteritems gives later stays, and the order of iteritems
\* is the dict's own
Flattenings(d, prepend) ==
  LET items == FlatItems(d, prepend)
      paths == { it[1] : it \in items }
  IN  { f \in [paths -> { it[2] : it \in items }] :
          \A p \in paths : <<p, f[p]>> \in items }

InitSlash ==
  /\ files = [path \in Paths |-> NoFile]
  /\ proc = [p \in Procs |-> Idle]
  /\ \E R \in SlashRecords : fl = [pc |-> "record", names |-> <<>>, R |-> R]

\* _flatten_nested_dict(R): no key is looked at before it is joined
FlattenAny ==
  /\ fl.pc = "record"
  /\ \E flattened \in Flattenings(fl.R, <<>>) :
       fl' = [pc |-> "flat", names |-> fl.names, R |-> fl.R, flattened |-> flattened]
  /\ UNCHANGED <<files, proc>>

NextSlash == FlattenAny

SpecSlash == InitSlash /\ [][NextSlash]_vars

\* ------------------------------------------------------------------------
\* What the properties below speak of
\* ------------------------------------------------------------------------

\* the call of the one process of Spec
TheCall == proc[1]

Ended(op) == TheCall.op = op /\ TheCall.pc \in {"done", "raised"}

Returned(op) == TheCall.op = op /\ TheCall.pc = "done"

\* the values table of the call's file, now and when the call began
ValuesNow == files[TheCall.path].values

ValuesBefore == TheCall.pre[TheCall.path].values

\* the sites table get_site reads, when the call began
SitesBefore == TheCall.pre[TheCall.rpath].sites

\* the composite key of a row of the values table
KeyOf(row) == <<row[Txt("site_code")], row[Txt("variable_code")], row[Txt("datetime")]>>

Keys(value_table) == { KeyOf(value_table[m]) : m \in 1..Len(value_table) }

RowsOf(value_table, key) == { m \in 1..Len(value_table) : KeyOf(value_table[m]) = key }

\* the values of a batch in the order given, each with its variable
RECURSIVE Incoming(_)
Incoming(site_data) ==
  IF site_data = <<>> THEN <<>>
  ELSE LET g == Head(site_data)
       IN  [i \in 1..Len(g.values) |-> [variable |-> g.variable, value |-> g.values[i]]]
           \o Incoming(Tail(site_data))

\* the composite key of an incoming value of the call
KeyIn(it) ==
  <<TheCall.site_code, it.variable[Txt("code")].val, it.value[Txt("datetime")]>>

\* the network of a site code in a sites table: that of its last row
NetworkOf(site_table, code) ==
  LET rows == { m \in 1..Len(site_table) : site_table[m][Txt("code")] = code }
  IN  site_table[CHOOSE m \in rows : \A n \in rows : n <= m][Txt("network")]

\* an incoming value merged with the attributes of its site and variable
Merged(it) ==
  LET stat == IF Txt("statistic") \in DOMAIN it.variable
                THEN Dict({ <<Txt("variable_statistic_code"),
                              it.variable[Txt("statistic")].val[Txt("code")].val>>,
                            <<Txt("variable_statistic_name"),
                              it.variable[Txt("statistic")].val[Txt("name")].val>> })
                ELSE EmptyDict
  IN  stat @@ Dict({ <<Txt("site_code"), TheCall.site_code>>,
                     <<Txt("site_network"), NetworkOf(SitesBefore, TheCall.site_code)>>,
                     <<Txt("variable_code"), it.variable[Txt("code")].val>>,
                     <<Txt("variable_network"), it.variable[Txt("network")].val>> })
           @@ it.value

\* a row holds every field of a flat dict
Holds(row, flat) == \A k \in DOMAIN flat : row[k] = flat[k]

\* the last position of a sequence of incoming values that has the key
LastWith(incoming, key) ==
  CHOOSE i \in 1..Len(incoming) :
    /\ KeyIn(incoming[i]) = key
    /\ \A j \in 1..Len(incoming) : KeyIn(incoming[j]) = key => j <= i

\* the incoming values whose key no row had when the call began, in order
RECURSIVE NewOnes(_, _)
NewOnes(incoming, value_table) ==
  IF incoming = <<>> THEN <<>>
  ELSE (IF KeyIn(Head(incoming)) \in Keys(value_table) THEN <<>> ELSE <<Head(incoming)>>)
       \o NewOnes(Tail(incoming), value_table)

\* ------------------------------------------------------------------------
\* The properties
\* ------------------------------------------------------------------------

\* C1: after every completed update_site_data the values table holds at
\* most one row for each composite key (site code, variable code, datetime),
\* also when two values of one batch carry the same key.
C1_OneRowPerKey ==
  Returned("update_site_data") =>
    \A m, n \in 1..Len(ValuesNow) : KeyOf(ValuesNow[m]) = KeyOf(ValuesNow[n]) => m = n

\* C2: when the table holds a row for a key and update_site_data is called
\* with a value at that key, the key still has exactly one row, at the same
\* place, holding the latest incoming value of that key merged with the site
\* and variable attributes; a batch of such values alone leaves the number of
\* rows unchanged.
C2_ResyncKeepsOneRow ==
  Returned("update_site_data") =>
    LET incoming == Incoming(TheCall.site_data) IN
    /\ \A i \in 1..Len(incoming) :
         LET key == KeyIn(incoming[i]) IN
         Cardinality(RowsOf(ValuesBefore, key)) = 1 =>
           /\ RowsOf(ValuesNow, key) = RowsOf(ValuesBefore, key)
           /\ \A m \in RowsOf(ValuesNow, key) :
                Holds(ValuesNow[m], Merged(incoming[LastWith(incoming, key)]))
    /\ (\A i \in 1..Len(incoming) : KeyIn(incoming[i]) \in Keys(ValuesBefore))
         => Len(ValuesNow) = Len(ValuesBefore)

\* a row is synced again with another value text
C2_Witness ==
  /\ Returned("update_site_data")
  /\ Len(ValuesBefore) = 1
  /\ Len(TheCall.site_data) = 1
  /\ Len(TheCall.site_data[1].values) = 1
  /\ KeyIn(Incoming(TheCall.site_data)[1]) = KeyOf(ValuesBefore[1])
  /\ ValuesBefore[1][Txt("value")] = Txt("12.3")
  /\ Len(ValuesNow) = 1
  /\ ValuesNow[1][Txt("value")] = Txt("12.5")

\* C3: existing keys are updated in place and the rows of the new keys are
\* appended after all the rows the table had, in the order of their values
\* in the input.
C3_DeferredAppendOrder ==
  Returned("update_site_data") =>
    LET incoming == Incoming(TheCall.site_data)
        new == NewOnes(incoming, ValuesBefore)
        known == { KeyIn(incoming[i]) : i \in 1..Len(incoming) }
    IN
    /\ Len(ValuesNow) = Len(ValuesBefore) + Len(new)
    /\ \A m \in 1..Len(ValuesBefore) :
         LET key == KeyOf(ValuesBefore[m]) IN
         /\ KeyOf(ValuesNow[m]) = key
         /\ IF key \in known /\ m = First(RowsOf(ValuesBefore, key))
              THEN Holds(ValuesNow[m], Merged(incoming[LastWith(incoming, key)]))
              ELSE ValuesNow[m] = ValuesBefore[m]
    /\ \A j \in 1..Len(new) : Holds(ValuesNow[Len(ValuesBefore) + j], Merged(new[j]))

\* a batch [K1 (new), K2 (existing), K3 (new)] has been synced
C3_Witness ==
  /\ Returned("update_site_data")
  /\ Len(ValuesBefore) = 1
  /\ Len(ValuesNow) = 3
  /\ LET incoming == Incoming(TheCall.site_data) IN
     /\ Len(incoming) = 3
     /\ KeyIn(incoming[2]) = KeyOf(ValuesBefore[1])
     /\ KeyIn(incoming[1]) # KeyIn(incoming[3])
     /\ KeyOf(ValuesNow[1]) = KeyIn(incoming[2])
     /\ ValuesNow[1] # ValuesBefore[1]
     /\ KeyOf(ValuesNow[2]) = KeyIn(incoming[1])
     /\ KeyOf(ValuesNow[3]) = KeyIn(incoming[3])

\* C4: a call leaves every row alone whose key differs from the keys of its
\* values, and a value whose key no row has is appended, not written over a
\* row of another key.
C4_NoCrossKey ==
  TheCall.op = "update_site_data" =>
    LET incoming == Incoming(TheCall.site_data)
        known == { KeyIn(incoming[i]) : i \in 1..Len(incoming) }
    IN
    /\ Len(ValuesNow) >= Len(ValuesBefore)
    /\ \A m \in 1..Len(ValuesBefore) :
         KeyOf(ValuesBefore[m]) \notin known => ValuesNow[m] = ValuesBefore[m]
    /\ TheCall.pc = "done" =>
         \A i \in 1..Len(incoming) :
           KeyIn(incoming[i]) \notin Keys(ValuesBefore) =>
             \E m \in (Len(ValuesBefore) + 1)..Len(ValuesNow) :
               KeyOf(ValuesNow[m]) = KeyIn(incoming[i])

\* a row of one site is there, and the value of another site at the same
\* variable and datetime has been synced
C4_Witness ==
  /\ Returned("update_site_data")
  /\ Len(ValuesBefore) = 1
  /\ Len(ValuesNow) = 2
  /\ ValuesNow[1] = ValuesBefore[1]
  /\ KeyOf(ValuesNow[1])[1] # KeyOf(ValuesNow[2])[1]
  /\ KeyOf(ValuesNow[1])[2] = KeyOf(ValuesNow[2])[2]
  /\ KeyOf(ValuesNow[1])[3] = KeyOf(ValuesNow[2])[3]

\* the sites table of the call's file, now and when the call began
SitesNow == files[TheCall.path].sites

SitesThen == TheCall.pre[TheCall.path].sites

\* C5: update_site_list is append-only: the sites table is the rows it had,
\* unchanged and in order, followed by one row for each incoming record.
C5_SitesAppendOnly ==
  Returned("update_site_list") =>
    /\ Len(SitesNow) = Len(SitesThen) + Len(TheCall.sites)
    /\ SubSeq(SitesNow, 1, Len(SitesThen)) = SitesThen
    /\ \A j \in 1..Len(TheCall.sites) :
         _row_to_dict(RowSlice(SitesNow[Len(SitesThen) + j], SiteNames, <<>>), SiteNames)
           = TheCall.sites[j]

\* a second list, of another site code, has been synced
C5_Witness ==
  /\ Returned("update_site_list")
  /\ Len(SitesThen) = 1
  /\ Len(SitesNow) = 2
  /\ SitesNow[1] = SitesThen[1]
  /\ SitesNow[1][Txt("code")] # SitesNow[2][Txt("code")]

\* C6: no call ends, by return or by exception, with a file it opened still
\* open.
C6_HandleClosed ==
  TheCall.pc \in {"done", "raised"} =>
    TheCall.h5file # "open" /\ TheCall.rfile # "open"

\* C7: update_site_data for a site code the sites table has no row of fails
\* at the site lookup, before the file is opened for writing.
C7_UnknownSiteNotFound ==
  ( /\ TheCall.op = "update_site_data"
    /\ TheCall.rfile = "closed"
    /\ \A m \in 1..Len(SitesBefore) : SitesBefore[m][Txt("code")] # TheCall.site_code )
  => /\ TheCall.pc = "raised"
     /\ TheCall.h5file = "none"

\* C8: once a step of update_site_data has failed, the call does nothing
\* more: it has raised, the table has no more rows than it had, and with the
\* return to the caller, the one step left, the file stays as it is: no row
\* the call staged comes into the table.
C8_AbortOnFailure ==
  [][ (TheCall.op = "update_site_data" /\ TheCall.err # "none")
        => /\ TheCall.pc = "raised"
           /\ Len(ValuesNow) = Len(ValuesBefore)
           /\ files' = files
           /\ proc'[1].pc = "idle" ]_vars

\* C9: init_h5 on a file that holds tables and rows fails and leaves the
\* file as it was.
C9_InitKeepsContent ==
  ( /\ TheCall.op = "init_h5"
    /\ TheCall.pre[TheCall.path].tables
    /\ TheCall.pre[TheCall.path].sites # <<>> )
  => /\ files[TheCall.path] = TheCall.pre[TheCall.path]
     /\ TheCall.pc # "done"

\* C10: a record that conforms to a description, flattened, set into a row
\* and read back with _row_to_dict, is the record again.
C10_RoundTrip ==
  (fl.pc \in {"dict", "raised"} /\ Conforms(fl.R, fl.names)) =>
    fl.pc = "dict" /\ fl.return_dict = fl.R

\* a site record, three levels deep, has made the round trip
C10_Witness ==
  /\ fl.pc = "dict"
  /\ fl.names = USGSSite
  /\ Conforms(fl.R, fl.names)
  /\ fl.return_dict = fl.R
  /\ fl.R[Txt("timezone_info")].val[Txt("dst_tz")].val[Txt("abbreviation")].val = Txt("b")

\* a key of a record, at any level, holds the separator
RECURSIVE HasSep(_)
HasSep(d) ==
  \E k \in DOMAIN d :
    \/ \E n \in 1..Len(k) : k[n] = Sep
    \/ d[k].isdict /\ HasSep(d[k].val)

\* the nested paths of a record that end in a value, each a sequence of keys
RECURSIVE LeafPaths(_)
LeafPaths(d) ==
  UNION { IF d[k].isdict
            THEN { <<k>> \o rest : rest \in LeafPaths(d[k].val) }
            ELSE { <<k>> }
          : k \in DOMAIN d }

\* C11: _flatten_nested_dict of a record with a '/' in a key fails instead
\* of returning a flat mapping, and a mapping it returns has one flat key for
\* each nested path: no two paths are merged into one key.
C11_SeparatorRejected ==
  fl.pc # "record" =>
    /\ HasSep(fl.R) => fl.pc = "raised"
    /\ fl.pc = "flat" => Cardinality(DOMAIN fl.flattened) = Cardinality(LeafPaths(fl.R))

\* C12: update_site_data with an explicit path reads the site from the store
\* at that path and writes there only: the site it resolves is the one the
\* sites table of that store holds, the call succeeds when that store holds
\* the site, whatever the default file is, and the default file stays as it
\* was.
C12_ExplicitPathOnly ==
  ( /\ TheCall.op = "update_site_data"
    /\ TheCall.path = OtherPath
    /\ TheCall.pc \in {"done", "raised"} )
  => LET there == TheCall.pre[OtherPath]
         site == IF there.exists /\ there.tables
                   THEN DictGet(SitesDict(there.sites), TheCall.site_code)
                   ELSE None
     IN
     /\ files[HDF5_FILE_PATH] = TheCall.pre[HDF5_FILE_PATH]
     /\ TheCall.site = site
     /\ site.found => TheCall.pc = "done"

\* the call has values of its batch it has not scanned yet
ScansLeft(c) ==
  \/ c.pc = "data_scan" /\ c.i <= Len(c.site_data[c.d].values)
  \/ c.pc \in {"data_scan", "data_append"} /\ c.d < Len(c.site_data)
  \/ c.pc = "data_group" /\ c.d <= Len(c.site_data)

\* C13: within one update_site_data call no row is staged for append before
\* every value of the batch, of all its variable groups, has been scanned.
C13_AppendsAfterAllScans ==
  (TheCall.op = "update_site_data" /\ TheCall.row_buffer # <<>>) => ~ScansLeft(TheCall)

\* C14: when several rows match an incoming value, the scan step updates the
\* first of them in table order with the value merged with the attributes,
\* leaves every other row as it was, does not keep the value for the appends
\* and raises nothing (a failure of the store itself apart).
C14_FirstMatchOnly ==
  [][ LET c == TheCall
          value_table == files[c.path].values
      IN
      ( /\ c.op = "update_site_data"
        /\ c.pc = "data_scan"
        /\ c.i <= Len(c.site_data[c.d].values)
        /\ Cardinality(RowsOf(value_table,
                              KeyIn([variable |-> c.site_data[c.d].variable,
                                     value |-> c.site_data[c.d].values[c.i]])) ) >= 2 )
      => LET it == [variable |-> c.site_data[c.d].variable,
                    value |-> c.site_data[c.d].values[c.i]]
             matches == RowsOf(value_table, KeyIn(it))
             first == CHOOSE m \in matches : \A n \in matches : m <= n
             after == files'[c.path].values
         IN
         \/ /\ proc'[1].pc = "raised"
            /\ proc'[1].err = "HDF5ExtError"
            /\ files' = files
         \/ /\ proc'[1].pc = "data_scan"
            /\ proc'[1].err = "none"
            /\ proc'[1].i = c.i + 1
            /\ proc'[1].append_indices = c.append_indices
            /\ proc'[1].row_buffer = c.row_buffer
            /\ Len(after) = Len(value_table)
            /\ Holds(after[first], Merged(it))
            /\ \A m \in 1..Len(value_table) : m # first => after[m] = value_table[m] ]_vars

\* a key with two rows has been synced again: the first row has the new
\* value text, the second the old one
C14_Witness ==
  /\ Returned("update_site_data")
  /\ Len(ValuesBefore) = 2
  /\ KeyOf(ValuesBefore[1]) = KeyOf(ValuesBefore[2])
  /\ ValuesBefore[1][Txt("value")] = Txt("12.3")
  /\ ValuesBefore[2][Txt("value")] = Txt("12.3")
  /\ Len(TheCall.site_data) = 1
  /\ Len(TheCall.site_data[1].values) = 1
  /\ KeyIn(Incoming(TheCall.site_data)[1]) = KeyOf(ValuesBefore[1])
  /\ Len(ValuesNow) = 2
  /\ ValuesNow[1][Txt("value")] = Txt("12.5")
  /\ ValuesNow[2] = ValuesBefore[2]

\* the positions of an operation in the log of the call
LogAt(what) == { n \in 1..Len(TheCall.log) : TheCall.log[n] = what }

\* C15: a call of update_site_data or update_site_list that returns has
\* flushed its table exactly once, after its last update and its last
\* append, has closed the file after the flush, and has done nothing with
\* the file after the close.
C15_FlushOnceThenClose ==
  (Returned("update_site_data") \/ Returned("update_site_list")) =>
    LET n == Len(TheCall.log) IN
    /\ Cardinality(LogAt("flush")) = 1
    /\ Cardinality(LogAt("close")) = 1
    /\ \A f \in LogAt("flush") :
         /\ \A w \in LogAt("update") \cup LogAt("append") \cup LogAt("where") : w < f
         /\ \A k \in LogAt("close") : f < k
    /\ LogAt("close") = {n}
    /\ TheCall.h5file = "closed"
    /\ TheCall.row_buffer = <<>>

\* a call that updated one row and appended another has returned
C15_Witness ==
  /\ Returned("update_site_data")
  /\ TheCall.log = <<"where", "update", "where", "append", "flush", "close">>
  /\ Len(ValuesNow) = Len(ValuesBefore) + 1

\* the statistic code and name of a variable, when it has a statistic
HasStatistic(variable) == Txt("statistic") \in DOMAIN variable

StatisticOf(variable) ==
  << variable[Txt("statistic")].val[Txt("code")].val,
     variable[Txt("statistic")].val[Txt("name")].val >>

\* a row carries the attributes of the site of the call and of the variable
\* of an incoming value, and the statistic of no other variable of the batch
OwnAttributes(row, it) ==
  /\ row[Txt("site_code")] = TheCall.site_code
  /\ row[Txt("site_network")] = NetworkOf(SitesBefore, TheCall.site_code)
  /\ row[Txt("variable_code")] = it.variable[Txt("code")].val
  /\ row[Txt("variable_network")] = it.variable[Txt("network")].val
  /\ KeyOf(row) = KeyIn(it)
  /\ LET stat == <<row[Txt("variable_statistic_code")], row[Txt("variable_statistic_name")]>>
     IN  IF HasStatistic(it.variable)
           THEN stat = StatisticOf(it.variable)
           ELSE \A d \in 1..Len(TheCall.site_data) :
                  LET other == TheCall.site_data[d].variable IN
                  (other # it.variable /\ HasStatistic(other)) => stat # StatisticOf(other)

\* C16: every row update_site_data updates or appends carries the code and
\* network of the site, the code, network and statistic of the variable of
\* its own value, the key of that value, and the statistic of no other
\* variable of the batch.
C16_OwnAttributes ==
  [][ LET c == TheCall IN
      (c.op = "update_site_data" /\ c.pc \in {"data_scan", "data_append"}) =>
        LET g == c.site_data[c.d] IN
        /\ (c.pc = "data_scan" /\ Len(proc'[1].log) = Len(c.log) + 2) =>
             LET it == [variable |-> g.variable, value |-> g.values[c.i]]
                 matches == RowsOf(files[c.path].values, KeyIn(it))
             IN  \A m \in matches :
                   (\A n \in matches : m <= n) => OwnAttributes(files'[c.path].values[m], it)
        /\ (c.pc = "data_append" /\ Len(proc'[1].row_buffer) = Len(c.row_buffer) + 1) =>
             OwnAttributes(proc'[1].row_buffer[Len(c.row_buffer) + 1],
                           [variable |-> g.variable, value |-> g.values[c.append_indices[c.ai]]])
    ]_vars

C18_ColumnsInSchema ==
  /\ TheCall.op = "init_h5" => TheCall.err # "AttributeError"
  /\ (TheCall.op = "update_site_data" /\ files[TheCall.path].vnames = "nested")
       => TheCall.err \notin {"NameError", "KeyError"}

\* C19: get_sites returns one entry for each site code of the sites table,
\* keyed by the code, and the entry of a code is the record of the last row
\* of that code: set into a row again, it is that row.
C19_LastRowWins ==
  Returned("get_sites") =>
    LET site_table == files[TheCall.path].sites
        return_dict == TheCall.return_dict
    IN
    /\ DOMAIN return_dict = { site_table[m][Txt("code")] : m \in 1..Len(site_table) }
    /\ \A code \in DOMAIN return_dict :
         \E m \in 1..Len(site_table) :
           /\ site_table[m][Txt("code")] = code
           /\ \A n \in 1..Len(site_table) : site_table[n][Txt("code")] = code => n <= m
           /\ return_dict[code][Txt("code")].val = code
           /\ RowSet(DefaultRow(SiteNames), SiteNames,
                     _flatten_nested_dict(return_dict[code], <<>>)) = site_table[m]

\* a site has been synced twice under two names, and get_sites returns it
\* once, under the later name
C19_Witness ==
  /\ Returned("get_sites")
  /\ Len(SitesNow) = 2
  /\ SitesNow[1][Txt("code")] = SitesNow[2][Txt("code")]
  /\ SitesNow[1][Txt("name")] # SitesNow[2][Txt("name")]
  /\ Cardinality(DOMAIN TheCall.return_dict) = 1
  /\ \A code \in DOMAIN TheCall.return_dict :
       TheCall.return_dict[code][Txt("name")].val = SitesNow[2][Txt("name")]

====
